---- MODULE Spec2Model ----
(***************************************************************************)
(* Model of src/server.js: an express server that keeps one module-level   *)
(* `browser` handle (initBrowser), answers GET /health from it, and turns  *)
(* each POST /convert into a page session on that browser.  Node runs one  *)
(* synchronous segment at a time, so every action below is the code that   *)
(* runs between two `await`s: it starts when a request arrives or when an  *)
(* awaited browser call settles, and ends at the next awaited call.        *)
(*                                                                         *)
(* JavaScript values are modelled as tagged records and strings as         *)
(* sequences of one-character strings, so that `>`, parseInt, includes and *)
(* replace are computed the way the language computes them.                *)
(***************************************************************************)
EXTENDS Integers, Sequences, FiniteSets, TLC

\* ------------------------------------------------------------------ bounds
NumConvert == 2     \* POST /convert requests that arrive
NumHealth == 1      \* GET /health requests that arrive
MaxFaults == 1      \* faults of the environment: a launch, a page call or a
                    \* close that rejects on a live browser, a browser that
                    \* disconnects

\* ------------------------------------------------------- JavaScript values
Undef == [t |-> "undefined", n |-> 0, s |-> <<>>]
NaN == [t |-> "nan", n |-> 0, s |-> <<>>]
Num(n) == [t |-> "number", n |-> n, s |-> <<>>]
Str(s) == [t |-> "string", n |-> 0, s |-> s]

Digits == {"0", "1", "2", "3", "4", "5", "6", "7", "8", "9"}

DigitVal(c) ==
  CASE c = "0" -> 0 [] c = "1" -> 1 [] c = "2" -> 2 [] c = "3" -> 3 [] c = "4" -> 4
    [] c = "5" -> 5 [] c = "6" -> 6 [] c = "7" -> 7 [] c = "8" -> 8 [] c = "9" -> 9

\* value of a sequence of decimal digits (0 for the empty sequence)
RECURSIVE DecimalValue(_)
DecimalValue(s) ==
  IF s = <<>> THEN 0
  ELSE 10 * DecimalValue(SubSeq(s, 1, Len(s) - 1)) + DigitVal(s[Len(s)])

AllDigits(s) == \A i \in 1..Len(s) : s[i] \in Digits

\* the longest prefix of s made of decimal digits
RECURSIVE DigitPrefix(_)
DigitPrefix(s) ==
  IF s = <<>> \/ s[1] \notin Digits THEN <<>>
  ELSE <<s[1]>> \o DigitPrefix(Tail(s))

\* a value is truthy unless it is undefined, NaN, 0 or the empty string
Truthy(v) ==
  CASE v.t = "undefined" -> FALSE
    [] v.t = "nan" -> FALSE
    [] v.t = "number" -> v.n # 0
    [] v.t = "string" -> v.s # <<>>

\* the number a value converts to in a comparison.  The strings of the model
\* are made of decimal digits and letters: no sign, blank, dot, exponent or
\* radix prefix, so a string is numeric exactly when it is all digits.
ToNumber(v) ==
  CASE v.t = "number" -> v
    [] v.t = "string" -> IF AllDigits(v.s) THEN Num(DecimalValue(v.s)) ELSE NaN
    [] OTHER -> NaN

\* v > n for a number n: false whenever v does not convert to a number
JsGreater(v, n) == ToNumber(v).t = "number" /\ ToNumber(v).n > n

\* parseInt(v): the integer at the start of String(v), NaN when there is none
ParseInt(v) ==
  CASE v.t = "number" -> v
    [] v.t = "string" ->
         IF DigitPrefix(v.s) = <<>> THEN NaN ELSE Num(DecimalValue(DigitPrefix(v.s)))
    [] OTHER -> NaN

\* sub occurs in s starting at position i
OccursAt(s, sub, i) ==
  /\ i + Len(sub) - 1 <= Len(s)
  /\ \A k \in 1..Len(sub) : s[i + k - 1] = sub[k]

\* String.prototype.includes
Includes(s, sub) == \E i \in 1..(Len(s) + 1) : OccursAt(s, sub, i)

\* String.prototype.replace with a string pattern: the first occurrence only
ReplaceFirst(s, sub, rep) ==
  IF ~Includes(s, sub) THEN s
  ELSE LET i == CHOOSE j \in 1..(Len(s) + 1) :
                  OccursAt(s, sub, j) /\ \A k \in 1..(j - 1) : ~OccursAt(s, sub, k)
       IN SubSeq(s, 1, i - 1) \o rep \o SubSeq(s, i + Len(sub), Len(s))

\* ----------------------------------------------------------------- strings
sSelector == <<"s", "e", "l", "e", "c", "t", "o", "r", ":">>
sTimeout == <<"t", "i", "m", "e", "o", "u", "t">>
sNetErr == <<"n", "e", "t", ":", ":", "E", "R", "R", "_">>
sProtocol == <<"P", "r", "o", "t", "o", "c", "o", "l", " ", "e", "r", "r", "o", "r">>
sImage == <<"i", "m", "a", "g", "e", "/">>
sPng == <<"p", "n", "g">>
sJpeg == <<"j", "p", "e", "g">>

\* ------------------------------------------------------------ request body
\* req.body of POST /convert; a field the caller left out is Undef
Body(html, width, height, format, waitFor, css, javascript) ==
  [html |-> html, width |-> width, height |-> height, format |-> format,
   waitFor |-> waitFor, css |-> css, javascript |-> javascript]

\* a destructuring default applies exactly when the field is undefined
Default(v, d) == IF v.t = "undefined" THEN d ELSE v

\* const { html, width = 1280, ... } = req.body
Destructure(b) ==
  [html |-> b.html,
   width |-> Default(b.width, Num(1280)),
   height |-> Default(b.height, Num(720)),
   format |-> Default(b.format, Str(sPng)),
   waitFor |-> b.waitFor,
   css |-> Default(b.css, Str(<<>>)),
   javascript |-> Default(b.javascript, Str(<<>>))]

\* the bodies the callers send
Bodies ==
  { Body(Undef, Num(5000), Undef, Undef, Undef, Undef, Undef),
    Body(Str(<<>>), Undef, Undef, Str(sJpeg), Undef, Undef, Str(<<"j">>)),
    Body(Str(<<"a">>), Str(<<"5", "0", "0", "0">>), Num(600), Undef, Undef, Undef, Undef),
    Body(Str(<<"a">>), Str(<<"8", "0", "0">>), Num(3000), Str(sJpeg), Undef, Undef, Undef),
    Body(Str(<<"a">>), Num(800), Str(<<"6", "0", "0">>), Undef, Num(5), Undef, Undef),
    Body(Str(<<"b">>), Num(3840), Num(2160), Str(sJpeg), Str(sSelector \o <<"#", "b">>),
         Str(<<"c">>), Str(<<"j">>)) }

\* ---------------------------------------------------------------- failures
\* a value an awaited call rejects with: `name` is its class, and a value
\* thrown without a message property (a string, null) has hasMessage FALSE
Failure(name, message) == [name |-> name, hasMessage |-> TRUE, message |-> message]
NoMessageFailure == [name |-> "none", hasMessage |-> FALSE, message |-> <<>>]
\* the `error` of a catch block that has not run
NoThrow == [name |-> "nothing", hasMessage |-> FALSE, message |-> <<>>]

\* the library's TimeoutError, message "Timeout 200ms exceeded."
TimeoutExceeded == Failure("TimeoutError", <<"T", "i", "m", "e", "o", "u", "t", " ", "2", "0", "0", "m", "s", " ", "e", "x", "c", "e", "e", "d", "e", "d", ".">>)
\* a TimeoutError whose message spells the word in lower case
TimeoutLower == Failure("TimeoutError", <<"t", "i", "m", "e", "o", "u", "t", " ", "2", "0", "0", "m", "s", " ", "e", "x", "c", "e", "e", "d", "e", "d">>)
NetFailure == Failure("Error", <<"n", "e", "t", ":", ":", "E", "R", "R", "_", "F", "A", "I", "L", "E", "D">>)
NetAfterTimeout == Failure("Error", <<"n", "e", "t", ":", ":", "E", "R", "R", "_", "F", "A", "I", "L", "E", "D", " ", "a", "f", "t", "e", "r", " ", "t", "i", "m", "e", "o", "u", "t">>)
ProtocolFailure == Failure("Error", <<"P", "r", "o", "t", "o", "c", "o", "l", " ", "e", "r", "r", "o", "r", " ", "(", "x", ")">>)
OtherFailure == Failure("Error", <<"b", "o", "o", "m">>)

\* what chromium.launch may reject with
LaunchFailures == {OtherFailure, TimeoutExceeded}

\* what the awaited page call of step pc may reject with: the two calls
\* bounded by `timeout` may time out, loading the content may fail on a
\* resource, the caller's script may throw a value that is no Error, and the
\* capture may fail in the protocol
StepFailures(pc) ==
  {OtherFailure}
    \cup (IF pc \in {"content", "waitSel"} THEN {TimeoutExceeded, TimeoutLower} ELSE {})
    \cup (IF pc = "content" THEN {NetFailure, NetAfterTimeout} ELSE {})
    \cup (IF pc = "js" THEN {NoMessageFailure} ELSE {})
    \cup (IF pc = "shot" THEN {ProtocolFailure} ELSE {})

\* what a page call made after its page is gone rejects with
TargetClosed == Failure("Error", <<"T", "a", "r", "g", "e", "t", " ", "c", "l", "o", "s", "e", "d">>)

\* ------------------------------------------------------------------- state
MaxWidth == 3840
MaxHeight == 2160

Converts == 1..NumConvert
Healths == 1..NumHealth

VARIABLES
  browser,    \* `let browser`: 0 for null, else the id of the launched browser
  launches,   \* chromium.launch calls made so far
  launched,   \* launches that resolved so far; the k-th to resolve is browser k
  live,       \* ids of the browser processes that are running and connected
  faults,     \* faults of the environment so far
  startup,    \* the initBrowser call of module load: "launching", "done", "failed"
  health,     \* health[h]: the handler of GET /health request h
  req,        \* req[r]: the handler of POST /convert request r: its position pc,
              \* req.body, browserInstance, page, the responses sent, the
              \* `error` its catch block caught, whether a throw left the handler
              \* uncaught, whether 'Error closing page' was logged
  pages,      \* the open page sessions: page id -> what the page has received
  nextPage,   \* page sessions created so far
  sig,        \* the SIGINT/SIGTERM handler: its position "idle", "closing",
              \* "exited" or "failed" (ended without process.exit), and the
              \* browser whose close() it awaits
  nodeEnv     \* process.env.NODE_ENV

vars == <<browser, launches, launched, live, faults, startup, health, req, pages,
          nextPage, sig, nodeEnv>>

Running == sig.pc # "exited"

IdleHealth == [pc |-> "idle", resp |-> <<>>]

IdleConvert ==
  [pc |-> "idle", body |-> Body(Undef, Undef, Undef, Undef, Undef, Undef, Undef),
   inst |-> 0, page |-> 0, resp |-> <<>>, thrown |-> NoThrow, uncaught |-> FALSE,
   closeError |-> FALSE]

\* the state once the module has loaded: the startup call of initBrowser has
\* found browser null and awaits chromium.launch; no request has arrived
Init ==
  /\ browser = 0
  /\ launches = 1
  /\ launched = 0
  /\ live = {}
  /\ faults = 0
  /\ startup = "launching"
  /\ health = [h \in Healths |-> IdleHealth]
  /\ req = [r \in Converts |-> IdleConvert]
  /\ pages = <<>>
  /\ nextPage = 0
  /\ sig = [pc |-> "idle", target |-> 0]
  /\ nodeEnv \in {"production", "development"}

\* ------------------------------------------------------------- initBrowser
\* an initBrowser that also launches when the stored browser has disconnected
NeedsLaunchOrDisconnected == browser = 0 \/ browser \notin live

\* `if (!browser)`: the handle is empty, so this caller launches
NeedsLaunch == browser = 0

\* `chromium.launch(...)` is called and awaited
StartLaunch ==
  /\ launches' = launches + 1
  /\ UNCHANGED <<browser, launched, live, faults>>

\* the id of the browser that the next launch to resolve brings
NewBrowserId == launched + 1

\* an awaited launch resolved: `browser = await chromium.launch(...)`
LaunchResolved ==
  /\ browser' = NewBrowserId
  /\ launched' = launched + 1
  /\ live' = live \cup {NewBrowserId}
  /\ UNCHANGED <<launches, faults>>

\* a launch that rejects and yet leaves a handle behind, as it would if the
\* handle were stored before the launch is known to have succeeded
LaunchRejectedPoisoned ==
  /\ faults < MaxFaults
  /\ faults' = faults + 1
  /\ browser' = launched + 1
  /\ UNCHANGED <<launched, live, launches>>

\* an awaited launch rejected: the assignment never runs, the catch rethrows
LaunchRejected ==
  /\ faults < MaxFaults
  /\ faults' = faults + 1
  /\ UNCHANGED <<browser, launched, live, launches>>

\* initBrowser finds the handle stored and returns it
HandleReused == UNCHANGED <<browser, launched, live, launches, faults>>

\* browserInstance.isConnected(), with l the set of connected browsers
IsConnected(b, l) == b \in l

\* the pages that are left when browser b goes away
PagesWithout(b) == [p \in {q \in DOMAIN pages : pages[q].browser # b} |-> pages[p]]

\* ----------------------------------------------------- startup initBrowser
StartupLaunchOk ==
  /\ Running /\ startup = "launching"
  /\ LaunchResolved
  /\ startup' = "done"
  /\ UNCHANGED <<health, req, pages, nextPage, sig, nodeEnv>>

\* the rejection reaches `.catch`, which logs it
StartupLaunchFail ==
  /\ Running /\ startup = "launching"
  /\ \E e \in LaunchFailures : LaunchRejected
  /\ startup' = "failed"
  /\ UNCHANGED <<health, req, pages, nextPage, sig, nodeEnv>>

\* ------------------------------------------------------------- GET /health
\* `browserInstance && !browserInstance.isConnected() === false`
IsHealthy(b, l) == b # 0 /\ ((~IsConnected(b, l)) = FALSE)

HealthyResponse(b, l) ==
  [status |-> 200,
   body |-> IF IsHealthy(b, l) THEN "healthy" ELSE "unhealthy",
   browser |-> IF IsHealthy(b, l) THEN "connected" ELSE "disconnected",
   error |-> Undef]

\* the catch block: 500, with error.message whatever the environment is
UnhealthyResponse(e) ==
  [status |-> 500, body |-> "unhealthy", browser |-> "absent", error |-> Str(e.message)]

\* request h arrives and calls initBrowser; with a handle stored the call
\* returns it and the handler answers in the same turn of the event loop
HealthArrive(h) ==
  /\ Running /\ health[h].pc = "idle"
  /\ \A g \in Healths : g < h => health[g].pc # "idle"
  /\ IF NeedsLaunch
       THEN /\ StartLaunch
            /\ health' = [health EXCEPT ![h].pc = "launching"]
       ELSE /\ health' = [health EXCEPT ![h].pc = "done",
                            ![h].resp = <<HealthyResponse(browser, live)>>]
            /\ HandleReused
  /\ UNCHANGED <<startup, req, pages, nextPage, sig, nodeEnv>>

HealthLaunchOk(h) ==
  /\ Running /\ health[h].pc = "launching"
  /\ LaunchResolved
  /\ health' = [health EXCEPT ![h].pc = "done",
                  ![h].resp = <<HealthyResponse(browser', live')>>]
  /\ UNCHANGED <<startup, req, pages, nextPage, sig, nodeEnv>>

\* a handler without its catch block: the rejection leaves the handler and no
\* response is sent
HealthLaunchFailEscapes(h) ==
  /\ Running /\ health[h].pc = "launching"
  /\ LaunchRejected
  /\ health' = [health EXCEPT ![h].pc = "done"]
  /\ UNCHANGED <<startup, req, pages, nextPage, sig, nodeEnv>>

\* the launch of request h rejected: the catch block answers 500
HealthLaunchFail(h) ==
  /\ Running /\ health[h].pc = "launching"
  /\ LaunchRejected
  /\ \E e \in LaunchFailures :
       health' = [health EXCEPT ![h].pc = "done", ![h].resp = <<UnhealthyResponse(e)>>]
  /\ UNCHANGED <<startup, req, pages, nextPage, sig, nodeEnv>>

\* ----------------------------------------------------------- POST /convert
\* the options kept in one module-level variable that every arriving request
\* overwrites: each handler then reads those of the request that arrived last
OptShared(r) ==
  LET last == CHOOSE q \in Converts :
                /\ req[q].pc # "idle"
                /\ \A x \in Converts : req[x].pc # "idle" => x <= q
  IN Destructure(req[last].body)

\* the options of request r after destructuring
Opt(r) == Destructure(req[r].body)

ImageResponse(format) ==
  [status |-> 200, kind |-> "image", contentType |-> Str(sImage \o format.s),
   error |-> "", details |-> Undef]

JsonResponse(status, error, details) ==
  [status |-> status, kind |-> "json", contentType |-> Undef,
   error |-> error, details |-> details]

\* a check for an absent html only, which lets an empty html through
MissingHtmlUndefinedOnly(o) == o.html.t = "undefined"

\* `if (!html) return res.status(400)...`
MissingHtml(o) == ~Truthy(o.html)

\* the dimension check with && in place of ||
TooLargeBoth(o) == JsGreater(o.width, MaxWidth) /\ JsGreater(o.height, MaxHeight)

\* `if (width > 3840 || height > 2160) return res.status(400)...`
TooLarge(o) == JsGreater(o.width, MaxWidth) \/ JsGreater(o.height, MaxHeight)

\* the two validation returns, in the order of the code
ValidationResponse(o) ==
  IF MissingHtml(o)
    THEN JsonResponse(400, "HTML content is required", Undef)
    ELSE JsonResponse(400, "Dimensions too large", Undef)

\* the status the catch block picks from error.message
StatusFor(message) ==
  IF Includes(message, sTimeout) THEN 408
  ELSE IF Includes(message, sNetErr) THEN 400
  ELSE 500

ErrorTextFor(message) ==
  IF Includes(message, sTimeout) THEN "Request timeout - page took too long to load"
  ELSE IF Includes(message, sNetErr) THEN "Network error loading resources"
  ELSE IF Includes(message, sProtocol) THEN "Browser protocol error"
  ELSE "Internal server error during conversion"

\* `details: process.env.NODE_ENV === 'development' ? error.message : undefined`
DetailsFor(message) == IF nodeEnv = "development" THEN Str(message) ELSE Undef

\* the responses the catch block sends for the thrown value e: one response,
\* or none when e has no message, since `error.message.includes` then throws
\* out of the catch block before res.status is reached
CatchResponses(e) ==
  IF e.hasMessage
    THEN <<JsonResponse(StatusFor(e.message), ErrorTextFor(e.message), DetailsFor(e.message))>>
    ELSE <<>>

\* a handler without its finally block: it returns without closing the page
AfterFinallyNoClose(page) == "done"

\* the finally block: `if (page) await page.close()` is called, or nothing
AfterFinally(page) == IF page # 0 THEN "closing" ELSE "done"

\* which wait the handler makes for waitFor
WaitStep(o) ==
  IF ~Truthy(o.waitFor) THEN "shot"
  ELSE IF o.waitFor.t = "string" /\ Includes(o.waitFor.s, sSelector) THEN "waitSel"
  ELSE IF o.waitFor.t = "number" \/ ParseInt(o.waitFor).t # "nan" THEN "waitTime"
  ELSE "shot"

\* `waitFor.replace('selector:', '')`
SelectorOf(o) == ReplaceFirst(o.waitFor.s, sSelector, <<>>)

\* the awaited call that follows setViewportSize, setContent and evaluate
AfterViewport(o) == IF Truthy(o.css) THEN "css" ELSE "content"
\* a pipeline that runs the script step even when javascript is empty
AfterContentAlwaysJs(o) == "js"

AfterContent(o) == IF Truthy(o.javascript) THEN "js" ELSE WaitStep(o)
AfterJs(o) == WaitStep(o)

\* a page session as browser b has just created it for request r
NewPage(b, r) ==
  [browser |-> b, owner |-> r, viewport |-> <<>>, css |-> Undef, html |-> Undef,
   js |-> Undef, wait |-> <<>>, shot |-> Undef]

\* the id of the page session that newPage returns
NewPageId == nextPage + 1

PageSteps == {"viewport", "css", "content", "js", "waitSel", "waitTime", "shot"}

PageAlive(r) == req[r].page \in DOMAIN pages

\* request r arrives with body b: destructuring, validation, initBrowser and,
\* with a handle stored, the call of newPage
ArriveWith(r, b) ==
  LET o == Destructure(b) IN
  IF MissingHtml(o) \/ TooLarge(o)
    THEN /\ req' = [req EXCEPT ![r].body = b, ![r].pc = AfterFinally(0),
                      ![r].resp = <<ValidationResponse(o)>>]
         /\ HandleReused
    ELSE IF NeedsLaunch
      THEN /\ StartLaunch
           /\ req' = [req EXCEPT ![r].body = b, ![r].pc = "launching"]
      ELSE /\ req' = [req EXCEPT ![r].body = b, ![r].pc = "newPage",
                        ![r].inst = browser]
           /\ HandleReused

ConvertArrive(r) ==
  /\ Running /\ req[r].pc = "idle"
  /\ \A q \in Converts : q < r => req[q].pc # "idle"
  /\ \E b \in Bodies : ArriveWith(r, b)
  /\ UNCHANGED <<startup, health, pages, nextPage, sig, nodeEnv>>

\* the launch of request r resolved: initBrowser returns and newPage is called
ConvertLaunchOk(r) ==
  /\ Running /\ req[r].pc = "launching"
  /\ LaunchResolved
  /\ req' = [req EXCEPT ![r].pc = "newPage", ![r].inst = browser']
  /\ UNCHANGED <<startup, health, pages, nextPage, sig, nodeEnv>>

\* the thrown value e reaches the catch block of request r, then finally
Caught(r, e) ==
  req' = [req EXCEPT ![r].pc = AfterFinally(req[r].page),
            ![r].resp = req[r].resp \o CatchResponses(e),
            ![r].thrown = e,
            ![r].uncaught = ~e.hasMessage]

ConvertLaunchFail(r) ==
  /\ Running /\ req[r].pc = "launching"
  /\ LaunchRejected
  /\ \E e \in LaunchFailures : Caught(r, e)
  /\ UNCHANGED <<startup, health, pages, nextPage, sig, nodeEnv>>

\* `page = await browserInstance.newPage()`, then setViewportSize is called
NewPageOk(r) ==
  /\ Running /\ req[r].pc = "newPage"
  /\ req[r].inst \in live
  /\ pages' = pages @@ (NewPageId :> NewPage(req[r].inst, r))
  /\ nextPage' = nextPage + 1
  /\ req' = [req EXCEPT ![r].page = NewPageId, ![r].pc = "viewport"]
  /\ UNCHANGED <<browser, launches, launched, live, faults, startup, health, sig, nodeEnv>>

NewPageFail(r) ==
  /\ Running /\ req[r].pc = "newPage"
  /\ \/ /\ req[r].inst \in live /\ faults < MaxFaults
        /\ faults' = faults + 1
        /\ Caught(r, OtherFailure)
     \/ /\ req[r].inst \notin live
        /\ faults' = faults
        /\ Caught(r, TargetClosed)
  /\ UNCHANGED <<browser, launches, launched, live, startup, health, pages, nextPage,
                 sig, nodeEnv>>

\* `{ width: parseInt(width), height: parseInt(height) }`
ViewportOf(o) == <<ParseInt(o.width), ParseInt(o.height)>>

\* what waitForSelector and waitForTimeout are called with
SelectorWait(o) == <<"selector", Str(SelectorOf(o))>>
TimeWait(o) == <<"timeout", ParseInt(o.waitFor)>>

\* the awaited call of step req[r].pc resolved on the page of request r, which
\* has now received `received`; the handler goes on to the call `next`
StepOk(r, step, received, next) ==
  /\ Running /\ req[r].pc = step
  /\ PageAlive(r)
  /\ pages' = [pages EXCEPT ![req[r].page] = received]
  /\ req' = [req EXCEPT ![r].pc = next]
  /\ UNCHANGED <<browser, launches, launched, live, faults, startup, health, nextPage,
                 sig, nodeEnv>>

\* `await page.setViewportSize(...)`
ViewportOk(r) ==
  StepOk(r, "viewport", [pages[req[r].page] EXCEPT !.viewport = ViewportOf(Opt(r))],
         AfterViewport(Opt(r)))

\* `await page.addStyleTag({ content: css })`
CssOk(r) ==
  StepOk(r, "css", [pages[req[r].page] EXCEPT !.css = Opt(r).css], "content")

\* `await page.setContent(html, ...)`
ContentOk(r) ==
  StepOk(r, "content", [pages[req[r].page] EXCEPT !.html = Opt(r).html],
         AfterContent(Opt(r)))

\* `await page.evaluate(javascript)`
JsOk(r) ==
  StepOk(r, "js", [pages[req[r].page] EXCEPT !.js = Opt(r).javascript], AfterJs(Opt(r)))

\* `await page.waitForSelector(selector, ...)`
WaitSelOk(r) ==
  StepOk(r, "waitSel", [pages[req[r].page] EXCEPT !.wait = SelectorWait(Opt(r))], "shot")

\* `await page.waitForTimeout(parseInt(waitFor))`
WaitTimeOk(r) ==
  StepOk(r, "waitTime", [pages[req[r].page] EXCEPT !.wait = TimeWait(Opt(r))], "shot")

\* `await page.screenshot(...)` resolved: res.set, res.send, then the finally
\* block calls page.close
ShotOk(r) ==
  /\ Running /\ req[r].pc = "shot"
  /\ PageAlive(r)
  /\ pages' = [pages EXCEPT ![req[r].page].shot = Opt(r).format]
  /\ req' = [req EXCEPT ![r].pc = AfterFinally(req[r].page),
               ![r].resp = req[r].resp \o <<ImageResponse(Opt(r).format)>>]
  /\ UNCHANGED <<browser, launches, launched, live, faults, startup, health, nextPage,
                 sig, nodeEnv>>

\* the awaited page call of request r rejected: catch, then finally
StepFail(r) ==
  /\ Running /\ req[r].pc \in PageSteps
  /\ \/ /\ PageAlive(r) /\ faults < MaxFaults
        /\ faults' = faults + 1
        /\ \E e \in StepFailures(req[r].pc) : Caught(r, e)
     \/ /\ ~PageAlive(r)
        /\ faults' = faults
        /\ Caught(r, TargetClosed)
  /\ UNCHANGED <<browser, launches, launched, live, startup, health, pages, nextPage,
                 sig, nodeEnv>>

\* the error-handling middleware: res.status(500).json({error, timestamp})
MiddlewareResponse == JsonResponse(500, "Internal server error", Undef)

\* the responses of request r once its handler has returned.  When a throw left
\* the handler uncaught its promise rejects: a framework that forwards the
\* rejection runs the error-handling middleware, one that ignores it sends
\* nothing
ReturnedResponses(r) ==
  IF req[r].uncaught
    THEN {req[r].resp, req[r].resp \o <<MiddlewareResponse>>}
    ELSE {req[r].resp}

\* a close that leaves the page session open
PagesClosedLeak(p) == pages

\* the open pages once page p is closed
PagesClosed(p) == [q \in DOMAIN pages \ {p} |-> pages[q]]

\* `await page.close()` resolved (closing a page that is gone resolves too)
CloseOk(r) ==
  /\ Running /\ req[r].pc = "closing"
  /\ pages' = PagesClosed(req[r].page)
  /\ \E rs \in ReturnedResponses(r) :
       req' = [req EXCEPT ![r].pc = "done", ![r].resp = rs]
  /\ UNCHANGED <<browser, launches, launched, live, faults, startup, health, nextPage,
                 sig, nodeEnv>>

\* a cleanup whose failure is reported to the caller as a 500 response
CloseFailResponds(r) ==
  /\ Running /\ req[r].pc = "closing"
  /\ PageAlive(r)
  /\ req[r].thrown # NoThrow \/ faults < MaxFaults
  /\ faults' = IF req[r].thrown # NoThrow THEN faults ELSE faults + 1
  /\ pages' \in (IF req[r].thrown # NoThrow THEN {pages}
                  ELSE {pages, PagesClosed(req[r].page)})
  /\ req' = [req EXCEPT ![r].pc = "done", ![r].closeError = TRUE,
               ![r].resp = req[r].resp \o
                 <<JsonResponse(500, "Internal server error during conversion", Undef)>>]
  /\ UNCHANGED <<browser, launches, launched, live, startup, health, nextPage, sig,
                 nodeEnv>>

\* `await page.close()` rejected: the inner catch logs it, and the page is
\* left open or closed as the browser happened to leave it.  A page whose call
\* has just failed may fail to close from the same fault, and then stays open.
CloseFail(r) ==
  /\ Running /\ req[r].pc = "closing"
  /\ PageAlive(r)
  /\ req[r].thrown # NoThrow \/ faults < MaxFaults
  /\ faults' = IF req[r].thrown # NoThrow THEN faults ELSE faults + 1
  /\ pages' \in (IF req[r].thrown # NoThrow THEN {pages}
                  ELSE {pages, PagesClosed(req[r].page)})
  /\ \E rs \in ReturnedResponses(r) :
       req' = [req EXCEPT ![r].pc = "done", ![r].closeError = TRUE, ![r].resp = rs]
  /\ UNCHANGED <<browser, launches, launched, live, startup, health, nextPage, sig,
                 nodeEnv>>

\* ------------------------------------------------------------- environment
\* browser process b dies or loses its connection; its pages go with it
Crash(b) ==
  /\ Running /\ b \in live /\ faults < MaxFaults
  /\ faults' = faults + 1
  /\ live' = live \ {b}
  /\ pages' = PagesWithout(b)
  /\ UNCHANGED <<browser, launches, launched, startup, health, req, nextPage, sig, nodeEnv>>

\* ------------------------------------------------------- SIGINT / SIGTERM
\* the handler of signal s starts: `if (browser) await browser.close()` is
\* called, or process.exit(0) at once when the handle is empty
Signal(s) ==
  /\ s \in {"SIGINT", "SIGTERM"}
  /\ sig.pc = "idle"
  /\ sig' = [pc |-> IF browser # 0 THEN "closing" ELSE "exited", target |-> browser]
  /\ UNCHANGED <<browser, launches, launched, live, faults, startup, health, req, pages,
                 nextPage, nodeEnv>>

\* browser.close() resolved: the browser and its pages are gone; process.exit(0)
SignalCloseOk ==
  /\ sig.pc = "closing"
  /\ live' = live \ {sig.target}
  /\ pages' = PagesWithout(sig.target)
  /\ sig' = [pc |-> "exited", target |-> 0]
  /\ UNCHANGED <<browser, launches, launched, faults, startup, health, req, nextPage,
                 nodeEnv>>

\* browser.close() rejected: nothing catches it, so process.exit(0) is not
\* reached; the unhandled rejection ends the process or is only reported,
\* as the runtime decides, and the browser is left as it was
SignalCloseFail ==
  /\ sig.pc = "closing"
  /\ sig.target \in live /\ faults < MaxFaults
  /\ faults' = faults + 1
  /\ \E outcome \in {"exited", "failed"} : sig' = [pc |-> outcome, target |-> 0]
  /\ UNCHANGED <<browser, launches, launched, live, startup, health, req, pages,
                 nextPage, nodeEnv>>

Next ==
  \/ StartupLaunchOk
  \/ StartupLaunchFail
  \/ \E h \in Healths : HealthArrive(h)
  \/ \E h \in Healths : HealthLaunchOk(h)
  \/ \E h \in Healths : HealthLaunchFail(h)
  \/ \E r \in Converts : ConvertArrive(r)
  \/ \E r \in Converts : ConvertLaunchOk(r)
  \/ \E r \in Converts : ConvertLaunchFail(r)
  \/ \E r \in Converts : NewPageOk(r)
  \/ \E r \in Converts : NewPageFail(r)
  \/ \E r \in Converts : ViewportOk(r)
  \/ \E r \in Converts : CssOk(r)
  \/ \E r \in Converts : ContentOk(r)
  \/ \E r \in Converts : JsOk(r)
  \/ \E r \in Converts : WaitSelOk(r)
  \/ \E r \in Converts : WaitTimeOk(r)
  \/ \E r \in Converts : ShotOk(r)
  \/ \E r \in Converts : StepFail(r)
  \/ \E r \in Converts : CloseOk(r)
  \/ \E r \in Converts : CloseFail(r)
  \/ \E b \in 1..launched : Crash(b)
  \/ \E s \in {"SIGINT", "SIGTERM"} : Signal(s)
  \/ SignalCloseOk
  \/ SignalCloseFail

Spec == Init /\ [][Next]_vars

\* ------------------------------------------- representations of the options
\* bodies that spell width, height and waitFor in the ways JSON allows: numbers,
\* digit strings, strings with a unit, a marker at the start or further on
WideBodies ==
  { Body(Str(<<"a">>), Undef, Undef, Undef, Undef, Undef, Undef),
    Body(Str(<<"a">>), Num(800), Str(<<"6", "0", "0">>), Undef, Num(5), Undef, Undef),
    Body(Str(<<"a">>), Str(<<"8", "0", "0">>), Num(600), Str(sJpeg),
         Str(sSelector \o <<"#", "b">>), Str(<<"c">>), Str(<<"j">>)),
    Body(Str(<<"a">>), Num(3840), Num(2160), Undef, Str(<<"5">>), Undef, Undef),
    Body(Str(<<"a">>), Str(<<"5", "0", "0", "0", "p", "x">>), Undef, Undef, Undef, Undef, Undef),
    Body(Str(<<"a">>), Undef, Undef, Undef, Str(<<"x">> \o sSelector \o <<"#", "b">>),
         Undef, Undef),
    Body(Str(<<"a">>), Undef, Undef, Undef, Str(<<"x">>), Undef, Undef),
    Body(Str(<<"a">>), Undef, Undef, Undef, Num(0), Undef, Undef),
    Body(Str(<<"a">>), Num(5000), Undef, Undef, Num(5), Undef, Undef) }

\* request r arrives with one of these bodies
ConvertArriveWide(r) ==
  /\ Running /\ req[r].pc = "idle"
  /\ \A q \in Converts : q < r => req[q].pc # "idle"
  /\ \E b \in WideBodies : ArriveWith(r, b)
  /\ UNCHANGED <<startup, health, pages, nextPage, sig, nodeEnv>>

\* the /convert handler alone, with a browser that never fails
NextWide ==
  \/ StartupLaunchOk
  \/ \E r \in Converts : ConvertArriveWide(r)
  \/ \E r \in Converts : ConvertLaunchOk(r)
  \/ \E r \in Converts : NewPageOk(r)
  \/ \E r \in Converts : ViewportOk(r)
  \/ \E r \in Converts : CssOk(r)
  \/ \E r \in Converts : ContentOk(r)
  \/ \E r \in Converts : JsOk(r)
  \/ \E r \in Converts : WaitSelOk(r)
  \/ \E r \in Converts : WaitTimeOk(r)
  \/ \E r \in Converts : ShotOk(r)
  \/ \E r \in Converts : CloseOk(r)

SpecWide == Init /\ [][NextWide]_vars

\* =================================================================== claims
\* the callers whose chromium.launch call is awaited right now
LaunchesInFlight ==
  (IF startup = "launching" THEN 1 ELSE 0)
    + Cardinality({h \in Healths : health[h].pc = "launching"})
    + Cardinality({r \in Converts : req[r].pc = "launching"})

\* C1: whatever the interleaving of the initBrowser callers, at most one launch
\* is in flight, at most one launch ever brings a browser, and at most one
\* browser process is alive.
C1_AtMostOneLaunch ==
  /\ LaunchesInFlight <= 1
  /\ launched <= 1
  /\ Cardinality(live) <= 1

\* the /convert requests whose handler has returned
Finished(r) == req[r].pc = "done"

\* C2 as stated: once a /convert request has finished, with an image or with an
\* error, the page session opened for it is no longer open.
C2_PageClosedAfterRequest ==
  \A r \in Converts : Finished(r) => req[r].page \notin DOMAIN pages

\* C2 as amended: once a /convert request has finished, the page session opened
\* for it is no longer open, unless its page.close() call rejected.
C2_PageClosedUnlessCloseFailed ==
  \A r \in Converts :
    Finished(r) /\ ~req[r].closeError => req[r].page \notin DOMAIN pages

\* a request finished with an image and another with an error raised after its
\* page was opened, and both page sessions were closed by their handlers
C2_Witness ==
  \E r1, r2 \in Converts :
    /\ Finished(r1) /\ req[r1].page # 0 /\ ~req[r1].closeError
    /\ req[r1].resp # <<>> /\ req[r1].resp[1].status = 200
    /\ Finished(r2) /\ req[r2].page # 0 /\ ~req[r2].closeError
    /\ req[r2].thrown # NoThrow

\* a caller's awaited launch rejects in this step
LaunchFailsFor(kind, c) ==
  /\ launched' = launched
  /\ CASE kind = "startup" -> startup = "launching" /\ startup' # "launching"
       [] kind = "health" -> health[c].pc = "launching" /\ health'[c].pc # "launching"
       [] kind = "convert" -> req[c].pc = "launching" /\ req'[c].pc # "launching"

\* the rejection reached the caller of initBrowser
ErrorReached(kind, c) ==
  CASE kind = "startup" -> startup' = "failed"
    [] kind = "health" ->
         /\ Len(health'[c].resp) = 1
         /\ health'[c].resp[1].status = 500
         /\ health'[c].resp[1].error.t = "string"
    [] kind = "convert" -> req'[c].thrown \in LaunchFailures /\ req'[c].inst = 0

\* a caller enters initBrowser in this step
EntersInitBrowser ==
  \/ \E h \in Healths : health[h].pc = "idle" /\ health'[h].pc # "idle"
  \/ \E r \in Converts : req[r].pc = "idle" /\ req'[r].pc \in {"launching", "newPage"}

\* C3: a launch that fails hands its error to the caller of initBrowser and
\* stores nothing, so an empty handle stays empty; and a call of initBrowser
\* that finds the handle empty launches again.
C3_FailedLaunchStoresNothing ==
  [][ /\ \A kind \in {"startup", "health", "convert"} :
           \A c \in (IF kind = "startup" THEN {0}
                     ELSE IF kind = "health" THEN Healths ELSE Converts) :
             LaunchFailsFor(kind, c) =>
               /\ browser' = browser
               /\ live' = live
               /\ ErrorReached(kind, c)
      /\ (EntersInitBrowser /\ browser = 0) => launches' = launches + 1
    ]_vars

\* the startup launch failed, the handle is empty, and a request that arrived
\* is launching again
C3_Witness ==
  /\ startup = "failed"
  /\ browser = 0
  /\ launches >= 2
  /\ \E r \in Converts : req[r].pc = "launching"

\* the html field of body b is absent or empty
HtmlAbsentOrEmpty(b) == b.html = Undef \/ b.html = Str(<<>>)

\* request r arrives in this step
Arrives(r) == req[r].pc = "idle" /\ req'[r].pc # "idle"

\* this step leaves the browser handle, the launches and the page sessions alone
BrowserUntouched ==
  /\ browser' = browser
  /\ launches' = launches
  /\ launched' = launched
  /\ live' = live
  /\ pages' = pages
  /\ nextPage' = nextPage

\* C4: a /convert request whose html is absent or empty is answered 400 at
\* once, and handling it neither calls initBrowser nor creates a page session.
C4_MissingHtmlRejected ==
  /\ [][ \A r \in Converts :
           Arrives(r) /\ HtmlAbsentOrEmpty(req'[r].body) =>
             /\ BrowserUntouched
             /\ req'[r].pc = "done" ]_vars
  /\ [](\A r \in Converts :
          req[r].pc # "idle" /\ HtmlAbsentOrEmpty(req[r].body) =>
            /\ req[r].pc = "done"
            /\ Len(req[r].resp) = 1
            /\ req[r].resp[1].status = 400
            /\ req[r].resp[1].kind = "json"
            /\ req[r].inst = 0
            /\ req[r].page = 0)

\* a request without html and a request with an empty html were both answered
C4_Witness ==
  \E r1, r2 \in Converts :
    /\ req[r1].pc = "done" /\ req[r1].body.html = Undef /\ req[r1].resp # <<>>
    /\ req[r2].pc = "done" /\ req[r2].body.html = Str(<<>>) /\ req[r2].resp # <<>>

\* the number that the value v of a width or height field denotes is above n
Exceeds(v, n) ==
  \/ v.t = "number" /\ v.n > n
  \/ v.t = "string" /\ v.s # <<>> /\ AllDigits(v.s) /\ DecimalValue(v.s) > n

\* body b asks for a width above 3840 or a height above 2160
OversizedBody(b) == Exceeds(b.width, 3840) \/ Exceeds(b.height, 2160)

\* C5: a /convert request with width > 3840 or height > 2160 is answered 400
\* whatever its other fields are, before the browser is touched.
C5_OversizedRejected ==
  /\ [][ \A r \in Converts :
           Arrives(r) /\ OversizedBody(req'[r].body) =>
             /\ BrowserUntouched
             /\ req'[r].pc = "done" ]_vars
  /\ [](\A r \in Converts :
          req[r].pc # "idle" /\ OversizedBody(req[r].body) =>
            /\ req[r].pc = "done"
            /\ Len(req[r].resp) = 1
            /\ req[r].resp[1].status = 400
            /\ req[r].resp[1].kind = "json"
            /\ req[r].inst = 0
            /\ req[r].page = 0)

\* an oversized width with a valid html and an oversized height with a valid
\* html were both answered
C5_Witness ==
  \E r1, r2 \in Converts :
    /\ req[r1].pc = "done" /\ Truthy(req[r1].body.html)
    /\ Exceeds(req[r1].body.width, 3840) /\ req[r1].resp # <<>>
    /\ req[r2].pc = "done" /\ Truthy(req[r2].body.html)
    /\ Exceeds(req[r2].body.height, 2160) /\ req[r2].resp # <<>>

\* request r failed because its content load or its selector wait ran out of time
TimedOut(r) == req[r].thrown.name = "TimeoutError"

\* C6: a /convert request whose content load or selector wait exceeds its
\* timeout is answered 408.
C6_TimeoutAnswered408 ==
  \A r \in Converts :
    TimedOut(r) => Len(req[r].resp) = 1 /\ req[r].resp[1].status = 408

\* the status the mapping is to give a failure with this message: timeout
\* first, then network, then 500
MappedStatus(message) ==
  CASE Includes(message, sTimeout) -> 408
    [] ~Includes(message, sTimeout) /\ Includes(message, sNetErr) -> 400
    [] OTHER -> 500

\* request r failed in initBrowser: it caught a failure and holds no browser
LaunchFailed(r) == req[r].thrown # NoThrow /\ req[r].inst = 0

\* C7: every failure raised after validation is answered once, with 408 when
\* its message indicates a timeout, else 400 when it indicates a network
\* error, else 500; and a launch failure is answered 500.
C7_FailureMappedOnce ==
  \A r \in Converts :
    req[r].thrown # NoThrow =>
      /\ Len(req[r].resp) = 1
      /\ req[r].resp[1].status = MappedStatus(req[r].thrown.message)
      /\ LaunchFailed(r) => req[r].resp[1].status = 500

\* the options that request r sent, with the defaults of the handler
OwnOptions(r) == Destructure(req[r].body)

\* page session p has received nothing but what its own request sent
OwnContentOnly(p) ==
  LET o == OwnOptions(pages[p].owner) IN
  /\ pages[p].viewport \in {<<>>, <<ParseInt(o.width), ParseInt(o.height)>>}
  /\ pages[p].css \in {Undef, o.css}
  /\ pages[p].html \in {Undef, o.html}
  /\ pages[p].js \in {Undef, o.javascript}
  /\ pages[p].shot \in {Undef, o.format}

\* C8: with /convert requests in flight together, every page session has
\* received only the html, css, javascript, viewport and format of its own
\* request, and every image response carries the content type of its own
\* request's format.
C8_NoCrossRequestBleed ==
  /\ \A p \in DOMAIN pages : OwnContentOnly(p)
  /\ \A r \in Converts :
       \A i \in 1..Len(req[r].resp) :
         req[r].resp[i].kind = "image" =>
           req[r].resp[i].contentType = Str(sImage \o OwnOptions(r).format.s)

\* two requests with different formats and different html are in flight
\* together: both have been answered with their image and neither page
\* session is closed yet
C8_Witness ==
  \E r1, r2 \in Converts :
    /\ req[r1].pc = "closing" /\ req[r2].pc = "closing"
    /\ req[r1].resp # <<>> /\ req[r1].resp[1].contentType = Str(sImage \o sPng)
    /\ req[r2].resp # <<>> /\ req[r2].resp[1].contentType = Str(sImage \o sJpeg)
    /\ req[r1].page \in DOMAIN pages /\ req[r2].page \in DOMAIN pages
    /\ pages[req[r1].page].html # pages[req[r2].page].html

\* the open page sessions that request r created
PagesOf(r) == {p \in DOMAIN pages : pages[p].owner = r}

\* the /convert requests that have arrived and whose handler has not returned
Unfinished == {r \in Converts : req[r].pc \notin {"idle", "done"}}

\* every request owns at most one page session, and no page session is held
\* by two requests
PagesNotShared ==
  /\ \A r \in Converts : Cardinality(PagesOf(r)) <= 1
  /\ \A r \in Converts : req[r].page # 0 => req[r].page \notin DOMAIN pages
                                              \/ pages[req[r].page].owner = r
  /\ \A r1, r2 \in Converts : r1 # r2 /\ req[r1].page # 0 => req[r1].page # req[r2].page

\* C9 as stated: page sessions are not shared, and there are at most as many
\* open page sessions as unfinished /convert requests.
C9_PagesBoundedByInFlight ==
  /\ PagesNotShared
  /\ Cardinality(DOMAIN pages) <= Cardinality(Unfinished)

\* the requests that finished after their page.close() call rejected
CloseFailed == {r \in Converts : Finished(r) /\ req[r].closeError}

\* C9 as amended: page sessions are not shared, and there are at most as many
\* open page sessions as unfinished /convert requests plus finished requests
\* whose page.close() call rejected.
C9_PagesBoundedUnlessCloseFailed ==
  /\ PagesNotShared
  /\ Cardinality(DOMAIN pages) <= Cardinality(Unfinished) + Cardinality(CloseFailed)

\* two requests are in flight and each holds its own open page session
C9_Witness ==
  /\ Cardinality(Unfinished) = 2
  /\ Cardinality(DOMAIN pages) = 2
  /\ \A r \in Unfinished : req[r].page \in DOMAIN pages

\* request h is answered in this step
Answered(h) == health[h].resp = <<>> /\ health'[h].resp # <<>>

\* the shared handle exists and reports itself connected once the step is over
HandleConnected == browser' # 0 /\ browser' \in live'

\* C10: GET /health answers 'healthy' and 'connected' exactly when the shared
\* handle exists and is connected at that moment, and 'unhealthy' (with
\* 'disconnected' where it names the browser) exactly when it does not.
C10_HealthReflectsHandle ==
  [][ \A h \in Healths :
        Answered(h) =>
          LET a == health'[h].resp[1] IN
          /\ (a.body = "healthy") <=> HandleConnected
          /\ (a.body = "unhealthy") <=> ~HandleConnected
          /\ (a.browser = "connected") <=> HandleConnected
          /\ (a.status = 200 /\ ~HandleConnected) => a.browser = "disconnected"
    ]_vars

\* the handler of GET /health request h returns in this step
HealthReturns(h) == health[h].pc # "done" /\ health'[h].pc = "done"

\* the launch that request h awaited rejects in this step
HealthLaunchRejects(h) == health[h].pc = "launching" /\ launched' = launched

\* C11: GET /health answers 500 'unhealthy' when its browser launch fails, the
\* failure never leaves the handler unanswered, and in every other case it
\* answers 200.
C11_HealthLaunchFailure500 ==
  [][ \A h \in Healths :
        HealthReturns(h) =>
          /\ Len(health'[h].resp) = 1
          /\ IF HealthLaunchRejects(h)
               THEN /\ health'[h].resp[1].status = 500
                    /\ health'[h].resp[1].body = "unhealthy"
               ELSE health'[h].resp[1].status = 200
    ]_vars

\* a /health request whose launch failed was answered 500 while the handle is
\* empty
C11_Witness ==
  \E h \in Healths :
    /\ health[h].pc = "done"
    /\ health[h].resp # <<>> /\ health[h].resp[1].status = 500
    /\ browser = 0

\* C12: in production mode no response to a client, from /convert or from
\* /health, carries the message text of the underlying failure.
C12_NoFailureTextInProduction ==
  nodeEnv = "production" =>
    /\ \A r \in Converts :
         \A i \in 1..Len(req[r].resp) : req[r].resp[i].details = Undef
    /\ \A h \in Healths :
         \A i \in 1..Len(health[h].resp) : health[h].resp[i].error = Undef

\* C13: once a termination signal has been handled, the process has exited with
\* the shared browser closed: the handler never ends without exiting, and at
\* exit the stored handle is not a running browser.
C13_SignalClosesBrowserAndExits ==
  /\ sig.pc # "failed"
  /\ sig.pc = "exited" => (browser = 0 \/ browser \notin live)

\* s begins with pre
StartsWith(s, pre) == Len(s) >= Len(pre) /\ SubSeq(s, 1, Len(pre)) = pre

\* the wait that waitFor value w stands for: the selector after a leading
\* marker, else the pause of a value that parses as a number, else none
ClaimedWait(w) ==
  IF w.t = "string" /\ StartsWith(w.s, sSelector)
    THEN <<"selector", Str(SubSeq(w.s, Len(sSelector) + 1, Len(w.s)))>>
  ELSE IF ParseInt(w).t = "number" THEN <<"timeout", ParseInt(w)>>
  ELSE <<>>

\* two waits have the same effect: a pause of 0 ms is no wait
SameWait(w1, w2) ==
  LET norm(w) == IF w = <<"timeout", Num(0)>> THEN <<>> ELSE w
  IN norm(w1) = norm(w2)

\* C14: waitFor gives exactly one of three behaviours: a string that starts with
\* 'selector:' waits for the selector after the marker; otherwise a value that
\* parses as a number pauses that many milliseconds; otherwise there is no wait.
C14_WaitForThreeWay ==
  \A r \in Converts :
    LET w == ClaimedWait(Opt(r).waitFor) IN
    /\ req[r].pc = "waitSel" => w # <<>> /\ w[1] = "selector"
    /\ req[r].pc = "waitTime" => w # <<>> /\ w[1] = "timeout"
    /\ req[r].pc = "shot" /\ PageAlive(r) => SameWait(pages[req[r].page].wait, w)

\* the page.close() call of request r rejects in this step
CloseRejects(r) == req[r].pc = "closing" /\ req'[r].closeError

\* C15: a page.close() that fails during cleanup is only logged: the response
\* the request already has, image or error, stays as it is, no further response
\* is produced, and the handler returns.
C15_CleanupFailureOnlyLogged ==
  /\ [][ \A r \in Converts :
           CloseRejects(r) =>
             /\ req[r].resp # <<>> => req'[r].resp = req[r].resp
             /\ req'[r].thrown = req[r].thrown
             /\ req'[r].pc = "done" ]_vars
  /\ [](\A r \in Converts : req[r].closeError => Len(req[r].resp) <= 1)

\* a request was answered 408 for a timeout, and then its page.close() rejected
C15_Witness ==
  \E r \in Converts :
    /\ req[r].closeError /\ Len(req[r].resp) = 1
    /\ req[r].resp[1].kind = "json" /\ req[r].resp[1].status = 408
    /\ req[r].thrown = TimeoutLower

\* C16: the page session of a /convert request is closed before its response is
\* sent: whenever a request that opened a page has a response, image or error,
\* that page session is no longer open.
C16_PageClosedBeforeResponse ==
  \A r \in Converts :
    req[r].resp # <<>> /\ req[r].page # 0 => req[r].page \notin DOMAIN pages

\* C17: every page session is sized within the maximum: the width applied to a
\* page is at most 3840 and the height at most 2160, however the request spelt
\* them.
C17_ViewportWithinMaximum ==
  \A p \in DOMAIN pages :
    pages[p].viewport # <<>> =>
      /\ pages[p].viewport[1].t = "number" /\ pages[p].viewport[1].n <= 3840
      /\ pages[p].viewport[2].t = "number" /\ pages[p].viewport[2].n <= 2160

\* the string option v is present and not empty
NonEmpty(v) == v.t = "string" /\ v.s # <<>>

\* the steps that may follow step s in the stated order, for options o: css
\* and javascript only when non-empty, then the waitFor step or, with nothing
\* to wait for, the capture
OrderedNext(s, o) ==
  CASE s = "launching" -> {"newPage"}
    [] s = "newPage" -> {"viewport"}
    [] s = "viewport" -> IF NonEmpty(o.css) THEN {"css"} ELSE {"content"}
    [] s = "css" -> {"content"}
    [] s = "content" -> IF NonEmpty(o.javascript) THEN {"js"}
                        ELSE {"waitSel", "waitTime", "shot"}
    [] s = "js" -> {"waitSel", "waitTime", "shot"}
    [] s \in {"waitSel", "waitTime"} -> {"shot"}
    [] s = "shot" -> {"closing"}

\* the handler of request r moves on in this step
Advances(r) ==
  /\ req[r].pc \in {"launching", "newPage"} \cup PageSteps
  /\ req'[r].pc # req[r].pc

\* the awaited call of request r fails in this step
FailsNow(r) == req[r].thrown = NoThrow /\ req'[r].thrown # NoThrow

\* what the page of request r has received by the time step s is called
ReceivedBefore(r, s) ==
  LET o == Opt(r)
      pg == pages[req[r].page]
      sized == pg.viewport # <<>>
      styled == (pg.css # Undef) <=> NonEmpty(o.css)
      loaded == pg.html # Undef
      scripted == (pg.js # Undef) <=> NonEmpty(o.javascript)
  IN CASE s = "viewport" -> ~sized /\ pg.css = Undef /\ pg.html = Undef
       [] s = "css" -> sized /\ pg.css = Undef /\ pg.html = Undef
       [] s = "content" -> sized /\ styled /\ pg.html = Undef /\ pg.js = Undef
       [] s = "js" -> sized /\ styled /\ loaded /\ pg.js = Undef /\ pg.wait = <<>>
       [] s \in {"waitSel", "waitTime"} ->
            sized /\ styled /\ loaded /\ scripted /\ pg.wait = <<>> /\ pg.shot = Undef
       [] s = "shot" -> sized /\ styled /\ loaded /\ scripted /\ pg.shot = Undef

\* C18: a /convert request that passed validation runs its steps in the order
\* obtain browser, open page, set viewport, inject css (only if non-empty), load
\* html, execute javascript (only if non-empty), resolve waitFor, capture, send
\* response, each after the one before it completed; a step that fails is
\* followed by no later step, only by the error response and the cleanup.
C18_PipelineOrder ==
  /\ [][ \A r \in Converts :
           Advances(r) =>
             IF FailsNow(r)
               THEN /\ req'[r].pc \in {"closing", "done"}
                    /\ pages' = pages
                    /\ \A i \in 1..Len(req'[r].resp) : req'[r].resp[i].kind = "json"
               ELSE /\ req'[r].pc \in OrderedNext(req[r].pc, Opt(r))
                    /\ (req'[r].resp # req[r].resp) <=> req[r].pc = "shot"
         ]_vars
  /\ [](\A r \in Converts :
          /\ req[r].pc \in PageSteps /\ PageAlive(r) => ReceivedBefore(r, req[r].pc)
          /\ req[r].thrown # NoThrow => req[r].pc \in {"closing", "done"}
          /\ (\E i \in 1..Len(req[r].resp) : req[r].resp[i].kind = "image") =>
               req[r].pc \in {"closing", "done"} /\ req[r].thrown = NoThrow)

\* a request with css, javascript and a selector wait went through every step
\* and was answered with its image, and another request failed at a step and
\* was answered with an error
C18_Witness ==
  \E r1, r2 \in Converts :
    /\ req[r1].pc = "closing" /\ PageAlive(r1)
    /\ pages[req[r1].page].css # Undef /\ pages[req[r1].page].js # Undef
    /\ pages[req[r1].page].wait # <<>> /\ pages[req[r1].page].shot # Undef
    /\ req[r1].resp # <<>> /\ req[r1].resp[1].kind = "image"
    /\ req[r2].thrown # NoThrow /\ req[r2].page # 0
    /\ req[r2].resp # <<>> /\ req[r2].resp[1].kind = "json"

\* C19: every /convert request receives exactly one response: never two, and a
\* request whose handler has returned has been answered, whatever value was
\* thrown.
C19_ExactlyOneResponse ==
  \A r \in Converts :
    /\ Len(req[r].resp) <= 1
    /\ Finished(r) => Len(req[r].resp) = 1

\* GET /health request h calls initBrowser in this step
HealthEnters(h) == health[h].pc = "idle" /\ health'[h].pc # "idle"

\* POST /convert request r passes validation and calls initBrowser in this step
ConvertEnters(r) == req[r].pc = "idle" /\ req'[r].pc \in {"launching", "newPage"}

\* C20: an initBrowser call that starts with a handle stored launches nothing
\* and returns that handle, connected or not; no call clears the handle, and it
\* changes only when a launch that began with the handle empty resolves; /health
\* then answers 200, with 'unhealthy' and 'disconnected' when the stored
\* browser has disconnected.
C20_StoredHandleReused ==
  [][ /\ \A h \in Healths :
           HealthEnters(h) /\ browser # 0 =>
             /\ launches' = launches /\ browser' = browser
             /\ Len(health'[h].resp) = 1
             /\ health'[h].resp[1].status = 200
             /\ browser \notin live =>
                  /\ health'[h].resp[1].body = "unhealthy"
                  /\ health'[h].resp[1].browser = "disconnected"
      /\ \A r \in Converts :
           ConvertEnters(r) /\ browser # 0 =>
             /\ launches' = launches /\ browser' = browser
             /\ req'[r].inst = browser
      /\ launches' # launches => browser = 0
      /\ browser # 0 => browser' # 0
      /\ browser' # browser => launched' = launched + 1
    ]_vars

\* the stored browser has disconnected, and a /health request that arrived
\* afterwards was answered 200 'unhealthy' 'disconnected' without a new launch
C20_Witness ==
  \E h \in Healths :
    /\ browser # 0 /\ browser \notin live
    /\ launches = 1
    /\ health[h].resp # <<>>
    /\ health[h].resp[1].status = 200
    /\ health[h].resp[1].body = "unhealthy"
    /\ health[h].resp[1].browser = "disconnected"

====
